---- MODULE Spec2Model ----
(***************************************************************************)
(* A model of header_extractor.sequence_extractor.SequenceExtractor: the   *)
(* ordered list of step definitions (add_step), the sequential runner      *)
(* (execute), the execution of one step (execute_step: dependency check,   *)
(* condition, delay, field resolution, bounded retry, extraction) and the  *)
(* dot-path extractor (_extract_data / _get_by_dot_path).                  *)
(*                                                                         *)
(* Python values are tagged records, [t |-> <type>, ...]; Python's None is *)
(* None. A str whose characters matter (a key of a response body, an       *)
(* extraction path) is a tuple of one-character strings, so that split('.')*)
(* and lower() are computed and not assumed. A dict whose iteration order  *)
(* matters is a sequence of <<key, value>> pairs with distinct keys, in    *)
(* insertion order.                                                        *)
(***************************************************************************)
EXTENDS Integers, Sequences, FiniteSets, TLC

VARIABLES
    steps,      \* self.steps: the registered step definitions, in order
    results,    \* self.results: name -> StepResult, in insertion order
    context,    \* self.context: key -> value
    pc,         \* where the caller of the runner is: "idle", "loop", "attempt", "done"
    idx,        \* execute(): position of the for loop in self.steps (1-based)
    attempt,    \* execute_step(): the retry loop's variable
    prepared,   \* execute_step(): url, processed_headers, params, data of the step in flight
    log         \* what the current run has done so far (history)

vars == <<steps, results, context, pc, idx, attempt, prepared, log>>

-----------------------------------------------------------------------------
(* Bounds *)

\* the longest list of steps that is registered
MaxSteps == 3
\* the largest max_retries a step is given
MaxRetries == 2
\* the number of times execute() is called on one instance
MaxRuns == 2

-----------------------------------------------------------------------------
(* Python values *)

None == [t |-> "none"]
Bool(b) == [t |-> "bool", v |-> b]
Num(n) == [t |-> "num", v |-> n]
Str(s) == [t |-> "str", v |-> s]
\* a str given character by character
Chars(c) == [t |-> "chars", c |-> c]
\* a dict, as its items in insertion order
Dict(kv) == [t |-> "dict", kv |-> kv]
\* a JSON array
List(xs) == [t |-> "list", xs |-> xs]

IsDict(x) == x.t = "dict"

\* `k in d`, d[k] and d.get(k) for a dict given by its items
DictHas(d, k) == \E i \in DOMAIN d.kv : d.kv[i][1] = k
DictAt(d, k) == d.kv[CHOOSE i \in DOMAIN d.kv : d.kv[i][1] = k][2]
DictGet(d, k) == IF DictHas(d, k) THEN DictAt(d, k) ELSE None

-----------------------------------------------------------------------------
(* str.lower() and str.split('.') on character tuples *)

LowerChar(c) ==
    CASE c = "A" -> "a"
      [] c = "B" -> "b"
      [] c = "C" -> "c"
      [] c = "Z" -> "z"
      [] OTHER -> c

Lower(s) == [i \in DOMAIN s |-> LowerChar(s[i])]

RECURSIVE SplitDots(_)
SplitDots(s) ==
    IF \A i \in DOMAIN s : s[i] # "."
    THEN <<s>>
    ELSE LET i == CHOOSE j \in DOMAIN s :
                      /\ s[j] = "."
                      /\ \A k \in 1..(j - 1) : s[k] # "."
         IN <<SubSeq(s, 1, i - 1)>> \o SplitDots(SubSeq(s, i + 1, Len(s)))

HasDot(s) == \E i \in DOMAIN s : s[i] = "."

-----------------------------------------------------------------------------
(* _get_by_dot_path *)

\* lowered = {str(k).lower(): k for k in current.keys()}: the key that a
\* lower-cased segment maps to is the last key, in iteration order, that
\* lower-cases to it.
LoweredHas(d, lk) == \E i \in DOMAIN d.kv : Lower(d.kv[i][1]) = lk
LoweredAt(d, lk) ==
    LET i == CHOOSE j \in DOMAIN d.kv :
                 /\ Lower(d.kv[j][1]) = lk
                 /\ \A k \in (j + 1)..Len(d.kv) : Lower(d.kv[k][1]) # lk
    IN d.kv[i][1]

\* one segment of the walk without the case-insensitive fallback
StepIntoExactOnly(current, part) ==
    IF DictHas(current, part)
    THEN [hit |-> TRUE, at |-> DictAt(current, part)]
    ELSE [hit |-> FALSE, at |-> None]

\* one segment of the walk: the next cursor, or "miss"
StepInto(current, part) ==
    IF DictHas(current, part)
    THEN [hit |-> TRUE, at |-> DictAt(current, part)]
    ELSE IF LoweredHas(current, Lower(part))
         THEN [hit |-> TRUE, at |-> DictAt(current, LoweredAt(current, Lower(part)))]
         ELSE [hit |-> FALSE, at |-> None]

RECURSIVE WalkParts(_, _)
WalkParts(current, parts) ==
    IF parts = <<>> THEN current
    ELSE IF ~IsDict(current) THEN None
    ELSE LET nxt == StepInto(current, Head(parts))
         IN IF nxt.hit THEN WalkParts(nxt.at, Tail(parts)) ELSE None

GetByDotPath(obj, dot_path) ==
    IF ~IsDict(obj) THEN None ELSE WalkParts(obj, SplitDots(dot_path))

-----------------------------------------------------------------------------
(* _extract_data *)

\* A response is [json |-> <what response.json() does>]: it raises (the body
\* is not JSON) or returns the parsed body.
JsonRaises == [t |-> "raises"]

\* value = _get_by_dot_path(data, path) if '.' in path else data.get(path)
RuleValue(data, path) ==
    IF HasDot(path.c) THEN GetByDotPath(data, path.c) ELSE DictGet(data, path.c)

\* the loop over the rules, storing a value that is None as well
RECURSIVE ExtractRulesKeepNone(_, _, _)
ExtractRulesKeepNone(data, rules, extracted) ==
    IF rules = <<>> THEN extracted
    ELSE IF ~IsDict(data) \/ rules[1][2].t # "chars" THEN extracted
    ELSE ExtractRulesKeepNone(data, Tail(rules),
                              (rules[1][1] :> RuleValue(data, rules[1][2])) @@ extracted)

\* The for loop over extract_rules.items(), inside the try: a path that is
\* not a str makes `'.' in path` raise, which ends the loop with what was
\* extracted before it. `extracted` is a function key -> value.
RECURSIVE ExtractRules(_, _, _)
ExtractRules(data, rules, extracted) ==
    IF rules = <<>> THEN extracted
    ELSE LET key == rules[1][1]
             path == rules[1][2]
         IN IF ~IsDict(data)
            THEN ExtractRules(data, Tail(rules), extracted)
            ELSE IF path.t # "chars"
                 THEN extracted
                 ELSE LET value == RuleValue(data, path)
                      IN IF value # None
                         THEN ExtractRules(data, Tail(rules),
                                           (key :> value) @@ extracted)
                         ELSE ExtractRules(data, Tail(rules), extracted)

EmptyDict == << >>

ExtractData(response, extract_rules) ==
    IF response.json = JsonRaises
    THEN EmptyDict
    ELSE ExtractRules(response.json, extract_rules, EmptyDict)

-----------------------------------------------------------------------------
(* StepResult, self.results *)

\* StepResult(name=step_name, success=False); execution_time, a wall-clock
\* reading, is left out.
NewResult(name) ==
    [name |-> name, success |-> FALSE, data |-> EmptyDict, error |-> None,
     response |-> None]

\* str(e) of the exception that ended a step
Err(kind, about) == [t |-> "error", kind |-> kind, about |-> about]

ResultsHas(rs, name) == \E i \in DOMAIN rs : rs[i].name = name
ResultsAt(rs, name) == rs[CHOOSE i \in DOMAIN rs : rs[i].name = name]
\* a mapping that puts a new key first
ResultsPutFirst(rs, result) ==
    IF ResultsHas(rs, result.name)
    THEN [i \in DOMAIN rs |-> IF rs[i].name = result.name THEN result ELSE rs[i]]
    ELSE <<result>> \o rs

\* self.results[name] = result: a dict keeps the position of a key it has
ResultsPut(rs, result) ==
    IF ResultsHas(rs, result.name)
    THEN [i \in DOMAIN rs |-> IF rs[i].name = result.name THEN result ELSE rs[i]]
    ELSE Append(rs, result)

\* dict.update
DictUpdate(d, e) == e @@ d

-----------------------------------------------------------------------------
(* add_step *)

\* the method kept as it was given
MethodAsGiven(m) == m

\* method.upper()
UpperMethod(m) ==
    CASE m = "get" -> "GET"
      [] m = "Get" -> "GET"
      [] m = "post" -> "POST"
      [] m = "put" -> "PUT"
      [] OTHER -> m

\* `x or default`
Falsy(v) ==
    \/ v = None
    \/ v = Bool(FALSE)
    \/ v = Num(0)
    \/ v = Str("")
    \/ v = Dict(<<>>)
    \/ v = List(<<>>)

\* The dict add_step appends. args holds the arguments of the call; params
\* and continue_on_failure are **kwargs, None and FALSE when not given
\* (step.get("params"), step.get("continue_on_failure", False)). In the dict,
\* depends_on is the sequence of the names and extract the sequence of the
\* <<key, path>> rules.
StepOf(args) ==
    [name |-> args.name,
     url |-> args.url,
     method |-> UpperMethod(args.method),
     headers |-> IF Falsy(args.headers) THEN Dict(<<>>) ELSE args.headers,
     data |-> args.data,
     depends_on |-> IF Falsy(args.depends_on) THEN <<>> ELSE args.depends_on.xs,
     condition |-> args.condition,
     extract |-> IF Falsy(args.extract) THEN <<>> ELSE args.extract.kv,
     max_retries |-> args.max_retries,
     delay |-> args.delay,
     params |-> args.params,
     continue_on_failure |-> args.continue_on_failure]

-----------------------------------------------------------------------------
(* callables handed to a step: conditions, field functions *)

\* What calling f(ctx) does: [raised |-> TRUE, err |-> ...] or
\* [raised |-> FALSE, v |-> <the value returned>].
Raised(e) == [raised |-> TRUE, err |-> e]
Returned(v) == [raised |-> FALSE, v |-> v]

CtxGet(ctx, k, default) == IF k \in DOMAIN ctx THEN ctx[k] ELSE default

Call(f, ctx) ==
    CASE f.t = "fn_const" -> Returned(f.v)                 \* lambda ctx: v
      [] f.t = "fn_raises" -> Raised(Err("RuntimeError", "fn"))
      [] f.t = "fn_has" -> Returned(Bool(f.key \in DOMAIN ctx))   \* lambda ctx: key in ctx
      [] f.t = "fn_eq" ->                                  \* lambda ctx: ctx[key] == val
            IF f.key \in DOMAIN ctx
            THEN Returned(Bool(ctx[f.key] = f.val))
            ELSE Raised(Err("KeyError", f.key))
      [] f.t = "fn_at" ->                                  \* lambda ctx: ctx[key]
            IF f.key \in DOMAIN ctx
            THEN Returned(ctx[f.key])
            ELSE Raised(Err("KeyError", f.key))
      [] f.t = "fn_dict" ->                   \* lambda ctx: {name: ctx.get(key, "")}
            Returned(Dict(<< <<f.name, CtxGet(ctx, f.key, Str(""))>> >>))

IsCallable(v) == v.t \in {"fn_const", "fn_raises", "fn_has", "fn_eq", "fn_at", "fn_dict"}

\* a condition that raises counts as true
EvaluateConditionFailOpen(condition, ctx) ==
    LET r == Call(condition, ctx)
    IN IF r.raised THEN Bool(TRUE) ELSE r.v

\* _evaluate_condition: condition(context), False if it raises
EvaluateCondition(condition, ctx) ==
    LET r == Call(condition, ctx)
    IN IF r.raised THEN Bool(FALSE) ELSE r.v

-----------------------------------------------------------------------------
(* str.format, with the context as its keyword arguments *)

\* A str that is formatted is a literal without braces, Str(s); the
\* placeholder "{key}", Tmpl(key); the malformed "{", which format rejects
\* with ValueError; or the positional "{0}", which it rejects with IndexError.
Tmpl(key) == [t |-> "tmpl", key |-> key]
BadTmpl == [t |-> "badtmpl"]
PosTmpl == [t |-> "postmpl"]

IsStr(v) == v.t \in {"str", "tmpl", "badtmpl", "postmpl"}

\* str(v), as format inserts it
Render(v) == IF v.t = "str" THEN v ELSE [t |-> "strof", of |-> v]

Format(s, ctx) ==
    CASE s.t = "str" -> Returned(s)
      [] s.t = "tmpl" ->
            IF s.key \in DOMAIN ctx
            THEN Returned(Render(ctx[s.key]))
            ELSE Raised(Err("KeyError", s.key))
      [] s.t = "badtmpl" -> Raised(Err("ValueError", "{"))
      [] s.t = "postmpl" -> Raised(Err("IndexError", "0"))

-----------------------------------------------------------------------------
(* execute_step: resolving url, headers, params and data *)

\* The loop over the items of a static mapping: a callable value is called
\* with the context, a str is formatted and kept as it is when format raises
\* KeyError or ValueError, anything else is copied.
RECURSIVE ProcessItems(_, _, _)
ProcessItems(items, ctx, done) ==
    IF items = <<>> THEN Returned(Dict(done))
    ELSE LET k == items[1][1]
             v == items[1][2]
         IN IF IsCallable(v)
            THEN LET r == Call(v, ctx)
                 IN IF r.raised THEN r
                    ELSE ProcessItems(Tail(items), ctx, Append(done, <<k, r.v>>))
            ELSE IF IsStr(v)
                 THEN LET r == Format(v, ctx)
                      IN IF ~r.raised
                         THEN ProcessItems(Tail(items), ctx, Append(done, <<k, r.v>>))
                         ELSE IF r.err.kind \in {"KeyError", "ValueError"}
                              THEN ProcessItems(Tail(items), ctx, Append(done, <<k, v>>))
                              ELSE r
                 ELSE ProcessItems(Tail(items), ctx, Append(done, <<k, v>>))

DefaultUserAgent == Str("Mozilla/5.0 (Windows NT 10.0; Win64; x64) AppleWebKit/537.36 (KHTML, like Gecko) Chrome/91.0.4472.124 Safari/537.36")
DefaultAccept == Str("application/json, text/plain, */*")

\* the defaults put in whatever the mapping holds
WithDefaultHeadersAlways(h) ==
    Dict(<< <<"User-Agent", DefaultUserAgent>>, <<"Accept", DefaultAccept>> >>
            \o SelectSeq(h.kv, LAMBDA e : e[1] \notin {"User-Agent", "Accept"}))

\* Ensure required headers are present
WithDefaultHeaders(h) ==
    LET ua == IF DictHas(h, "User-Agent") THEN h
              ELSE Dict(Append(h.kv, <<"User-Agent", DefaultUserAgent>>))
    IN IF DictHas(ua, "Accept") THEN ua
       ELSE Dict(Append(ua.kv, <<"Accept", DefaultAccept>>))

ProcessedHeaders(step, ctx) ==
    LET called == IF IsCallable(step.headers)
                  THEN LET r == Call(step.headers, ctx)
                       IN IF r.raised THEN r
                          ELSE Returned(IF Falsy(r.v) THEN Dict(<<>>) ELSE r.v)
                  ELSE Returned(step.headers)
    IN IF called.raised THEN called
       ELSE IF ~IsDict(called.v) THEN Raised(Err("AttributeError", "items"))
       ELSE LET p == ProcessItems(called.v.kv, ctx, <<>>)
            IN IF p.raised THEN p ELSE Returned(WithDefaultHeaders(p.v))

\* params and data: a callable is called and its value taken as it is, a dict
\* is processed item by item, anything else is passed on
ResolveField(f, ctx) ==
    IF IsCallable(f) THEN Call(f, ctx)
    ELSE IF IsDict(f) THEN ProcessItems(f.kv, ctx, <<>>)
    ELSE Returned(f)

PrepareRequest(step, ctx) ==
    LET u == Format(step.url, ctx)
        h == ProcessedHeaders(step, ctx)
        p == ResolveField(step.params, ctx)
        d == ResolveField(step.data, ctx)
    IN IF u.raised THEN u
       ELSE IF h.raised THEN h
       ELSE IF p.raised THEN p
       ELSE IF d.raised THEN d
       ELSE Returned([url |-> u.v, headers |-> h.v, params |-> p.v, data |-> d.v])

-----------------------------------------------------------------------------
(* execute_step, up to the retry loop *)

\* only a failed result makes a dependency bad, not a missing one
BadDepsFailedOnly(step, rs) ==
    {i \in DOMAIN step.depends_on :
        /\ ResultsHas(rs, step.depends_on[i])
        /\ ~ResultsAt(rs, step.depends_on[i]).success}

\* a skipped dependency counts as not satisfied
BadDepsSkippedToo(step, rs) ==
    {i \in DOMAIN step.depends_on :
        \/ ~ResultsHas(rs, step.depends_on[i])
        \/ ~ResultsAt(rs, step.depends_on[i]).success
        \/ "skipped" \in DOMAIN ResultsAt(rs, step.depends_on[i]).data}

\* for dep in step["depends_on"]: the dependencies without a successful result,
\* and the first of them
BadDeps(step, rs) ==
    {i \in DOMAIN step.depends_on :
        \/ ~ResultsHas(rs, step.depends_on[i])
        \/ ~ResultsAt(rs, step.depends_on[i]).success}
\* the last dependency without a successful result
LastBadDep(step, rs) ==
    step.depends_on[CHOOSE i \in BadDeps(step, rs) : \A j \in BadDeps(step, rs) : i >= j]

FirstBadDep(step, rs) ==
    step.depends_on[CHOOSE i \in BadDeps(step, rs) : \A j \in BadDeps(step, rs) : i <= j]

Failed(name, err) == [NewResult(name) EXCEPT !.error = err, !.success = FALSE]
\* a skipped step that keeps success=False
SkippedAsFailure(name) ==
    [NewResult(name) EXCEPT !.data = ("skipped" :> Bool(TRUE))]

Skipped(name) ==
    [NewResult(name) EXCEPT !.success = TRUE, !.data = ("skipped" :> Bool(TRUE))]

\* execute_step with the condition evaluated before the dependencies
BeforeDispatchConditionFirst(i, step, rs, ctx) ==
    LET evaluated == ~Falsy(step.condition)
        called == IF evaluated THEN Call(step.condition, ctx) ELSE Returned(None)
        cond == IF evaluated THEN EvaluateCondition(step.condition, ctx) ELSE Bool(TRUE)
        enterEv == <<[ev |-> "enter", step |-> i]>>
        condEv == IF evaluated
                  THEN <<[ev |-> "condition", step |-> i, raised |-> called.raised,
                          value |-> IF called.raised THEN None ELSE called.v]>>
                  ELSE <<>>
        req == PrepareRequest(step, ctx)
    IN IF evaluated /\ Falsy(cond)
       THEN [out |-> "skipped", events |-> enterEv \o condEv, request |-> None,
             result |-> Skipped(step.name)]
       ELSE IF BadDeps(step, rs) # {}
       THEN [out |-> "failed", events |-> enterEv \o condEv, request |-> None,
             result |-> Failed(step.name, Err("Dependency", FirstBadDep(step, rs)))]
       ELSE IF req.raised
       THEN [out |-> "failed", events |-> enterEv \o condEv,
             request |-> None, result |-> Failed(step.name, req.err)]
       ELSE [out |-> "dispatch",
             events |-> enterEv \o condEv \o <<[ev |-> "dispatch", step |-> i]>>,
             request |-> req.v, result |-> NewResult(step.name)]

\* execute_step with the delay slept before the dependencies are checked
BeforeDispatchDelayFirst(i, step, rs, ctx) ==
    LET evaluated == ~Falsy(step.condition)
        called == IF evaluated THEN Call(step.condition, ctx) ELSE Returned(None)
        cond == IF evaluated THEN EvaluateCondition(step.condition, ctx) ELSE Bool(TRUE)
        delayEv == IF step.delay > 0 THEN <<[ev |-> "delay", step |-> i]>> ELSE <<>>
        enterEv == <<[ev |-> "enter", step |-> i]>> \o delayEv
        condEv == IF evaluated
                  THEN <<[ev |-> "condition", step |-> i, raised |-> called.raised,
                          value |-> IF called.raised THEN None ELSE called.v]>>
                  ELSE <<>>
        req == PrepareRequest(step, ctx)
    IN IF BadDeps(step, rs) # {}
       THEN [out |-> "failed", events |-> enterEv, request |-> None,
             result |-> Failed(step.name, Err("Dependency", FirstBadDep(step, rs)))]
       ELSE IF evaluated /\ Falsy(cond)
       THEN [out |-> "skipped", events |-> enterEv \o condEv, request |-> None,
             result |-> Skipped(step.name)]
       ELSE IF req.raised
       THEN [out |-> "failed", events |-> enterEv \o condEv,
             request |-> None, result |-> Failed(step.name, req.err)]
       ELSE [out |-> "dispatch",
             events |-> enterEv \o condEv \o <<[ev |-> "dispatch", step |-> i]>>,
             request |-> req.v, result |-> NewResult(step.name)]

\* What execute_step does with step number i before its first request:
\* [out |-> "failed" | "skipped" | "dispatch", result, request, events].
\* The events are the history of the call: that the step was entered, what
\* its condition did if it was called, that the delay was slept, that the
\* retry loop was reached.
BeforeDispatch(i, step, rs, ctx) ==
    LET evaluated == ~Falsy(step.condition)
        called == IF evaluated THEN Call(step.condition, ctx) ELSE Returned(None)
        cond == IF evaluated THEN EvaluateCondition(step.condition, ctx) ELSE Bool(TRUE)
        enterEv == <<[ev |-> "enter", step |-> i]>>
        condEv == IF evaluated
                  THEN <<[ev |-> "condition", step |-> i, raised |-> called.raised,
                          value |-> IF called.raised THEN None ELSE called.v]>>
                  ELSE <<>>
        delayEv == IF step.delay > 0 THEN <<[ev |-> "delay", step |-> i]>> ELSE <<>>
        req == PrepareRequest(step, ctx)
    IN IF BadDeps(step, rs) # {}
       THEN [out |-> "failed", events |-> enterEv, request |-> None,
             result |-> Failed(step.name, Err("Dependency", FirstBadDep(step, rs)))]
       ELSE IF evaluated /\ Falsy(cond)
       THEN [out |-> "skipped", events |-> enterEv \o condEv, request |-> None,
             result |-> Skipped(step.name)]
       ELSE IF req.raised
       THEN [out |-> "failed", events |-> enterEv \o condEv \o delayEv,
             request |-> None, result |-> Failed(step.name, req.err)]
       ELSE IF step.max_retries < 0
       \* range(max_retries + 1) is empty and `response` is never bound
       THEN [out |-> "failed", events |-> enterEv \o condEv \o delayEv,
             request |-> None,
             result |-> Failed(step.name, Err("UnboundLocalError", "response"))]
       ELSE [out |-> "dispatch",
             events |-> enterEv \o condEv \o delayEv
                           \o <<[ev |-> "dispatch", step |-> i]>>,
             request |-> req.v, result |-> NewResult(step.name)]

-----------------------------------------------------------------------------
(* The runner as a state machine *)

Init ==
    /\ steps = <<>>
    /\ results = <<>>
    /\ context = EmptyDict
    /\ pc = "idle"
    /\ idx = 0
    /\ attempt = 0
    /\ prepared = None
    /\ log = <<>>

\* add_step(**args), with args drawn from Args
AddStep(Args) ==
    /\ pc = "idle"
    /\ Len(steps) < MaxSteps
    /\ \E args \in Args : steps' = Append(steps, StepOf(args))
    /\ UNCHANGED <<results, context, pc, idx, attempt, prepared, log>>

\* the for loop of execute() at position i: the next step, or the return
LoopAt(i) == IF i > Len(steps) THEN "done" ELSE "loop"

\* execute(), up to the for loop
ExecuteBegin ==
    /\ pc = "idle"
    /\ results' = <<>>
    /\ idx' = 1
    /\ pc' = LoopAt(1)
    /\ log' = <<>>
    /\ UNCHANGED <<steps, context, attempt, prepared>>

\* execute() called again on the same instance after it has returned: only
\* self.results is bound anew, self.context is the mapping of __init__. The
\* history keeps that execute() was called before and starts over.
IsExecuteEvent(e) == e.ev = "execute"
ExecuteAgain ==
    /\ pc = "done"
    /\ Len(SelectSeq(log, IsExecuteEvent)) + 1 < MaxRuns
    /\ results' = <<>>
    /\ idx' = 1
    /\ pc' = LoopAt(1)
    /\ log' = Append(SelectSeq(log, IsExecuteEvent), [ev |-> "execute", step |-> 0])
    /\ UNCHANGED <<steps, context, attempt, prepared>>

\* A second call of execute() on the same instance, from another thread,
\* while the first call is in its for loop: its first statement,
\* self.results = {}, after which the thread waits. The history of the first
\* call notes it.
IsOverlapEvent(e) == e.ev = "overlap"
ExecuteOverlapping ==
    /\ pc \in {"loop", "attempt"}
    /\ Len(SelectSeq(log, IsOverlapEvent)) + 1 < MaxRuns
    /\ results' = <<>>
    /\ log' = Append(log, [ev |-> "overlap", step |-> 0])
    /\ UNCHANGED <<steps, context, pc, idx, attempt, prepared>>

\* Record without the break
RecordNoBreak(step, result) ==
    /\ results' = ResultsPut(results, result)
    /\ pc' = LoopAt(idx + 1) /\ idx' = idx + 1
    /\ attempt' = 0
    /\ prepared' = None

\* Record with a break on every failure
RecordAlwaysBreak(step, result) ==
    /\ results' = ResultsPut(results, result)
    /\ IF ~result.success
       THEN pc' = "done" /\ idx' = idx
       ELSE pc' = LoopAt(idx + 1) /\ idx' = idx + 1
    /\ attempt' = 0
    /\ prepared' = None

\* self.results[step["name"]] = result, and the break or the next iteration
Record(step, result) ==
    /\ results' = ResultsPut(results, result)
    /\ IF ~result.success /\ ~step.continue_on_failure
       THEN pc' = "done" /\ idx' = idx
       ELSE pc' = LoopAt(idx + 1) /\ idx' = idx + 1
    /\ attempt' = 0
    /\ prepared' = None

\* an iteration that executes a step whose name has a result
LoopStepNoPassOver ==
    /\ pc = "loop"
    /\ LET step == steps[idx]
           b == BeforeDispatch(idx, step, results, context)
       IN IF b.out = "dispatch"
          THEN /\ pc' = "attempt"
               /\ attempt' = 0
               /\ prepared' = b.request
               /\ log' = log \o b.events
               /\ UNCHANGED <<results, context, idx>>
          ELSE /\ Record(step, b.result)
               /\ log' = log \o b.events
               /\ UNCHANGED context
    /\ UNCHANGED steps

\* One iteration of the for loop of execute(), as far as the first request of
\* the step: the step is passed over (its name has a result), fails or is
\* skipped before any request, or enters the retry loop.
LoopStep ==
    /\ pc = "loop"
    /\ LET step == steps[idx]
           b == BeforeDispatch(idx, step, results, context)
       IN IF ResultsHas(results, step.name)
          THEN /\ idx' = idx + 1
               /\ pc' = LoopAt(idx + 1)
               /\ UNCHANGED <<results, context, attempt, prepared, log>>
          ELSE IF b.out = "dispatch"
          THEN /\ pc' = "attempt"
               /\ attempt' = 0
               /\ prepared' = b.request
               /\ log' = log \o b.events
               /\ UNCHANGED <<results, context, idx>>
          ELSE /\ Record(step, b.result)
               /\ log' = log \o b.events
               /\ UNCHANGED context
    /\ UNCHANGED steps

\* the key of the response in the context
ResponseKey(step_name) == step_name \o "_response"

\* a step that succeeds and leaves the context as it was
SucceededNoUpdate(step, response, ctx) ==
    LET extracted == IF step.extract # <<>>
                     THEN ExtractData(response, step.extract)
                     ELSE EmptyDict
    IN [context |-> (ResponseKey(step.name) :> response) @@ ctx,
        result |-> [NewResult(step.name) EXCEPT
                        !.data = DictUpdate(EmptyDict, extracted),
                        !.success = TRUE,
                        !.response = response]]

\* a step that succeeds without binding its response in the context
SucceededNoBinding(step, response, ctx) ==
    LET extracted == IF step.extract # <<>>
                     THEN ExtractData(response, step.extract)
                     ELSE EmptyDict
    IN [context |-> DictUpdate(ctx, extracted),
        result |-> [NewResult(step.name) EXCEPT
                        !.data = DictUpdate(EmptyDict, extracted),
                        !.success = TRUE,
                        !.response = response]]

\* a step that succeeds and keeps what it extracted out of its result
SucceededContextOnly(step, response, ctx) ==
    LET extracted == IF step.extract # <<>>
                     THEN ExtractData(response, step.extract)
                     ELSE EmptyDict
    IN [context |-> (ResponseKey(step.name) :> response) @@ DictUpdate(ctx, extracted),
        result |-> [NewResult(step.name) EXCEPT
                        !.success = TRUE,
                        !.response = response]]

\* a step that succeeds and starts the context over with what it wrote
SucceededFreshContext(step, response, ctx) ==
    LET extracted == IF step.extract # <<>>
                     THEN ExtractData(response, step.extract)
                     ELSE EmptyDict
    IN [context |-> (ResponseKey(step.name) :> response) @@ extracted,
        result |-> [NewResult(step.name) EXCEPT
                        !.data = DictUpdate(EmptyDict, extracted),
                        !.success = TRUE,
                        !.response = response]]

\* After the retry loop: extraction, the context, the result
Succeeded(step, response, ctx) ==
    LET extracted == IF step.extract # <<>>
                     THEN ExtractData(response, step.extract)
                     ELSE EmptyDict
    IN [context |-> (ResponseKey(step.name) :> response) @@ DictUpdate(ctx, extracted),
        result |-> [NewResult(step.name) EXCEPT
                        !.data = DictUpdate(EmptyDict, extracted),
                        !.success = TRUE,
                        !.response = response]]

\* What the session answers to a request: an exception (a network error, or
\* raise_for_status on a status that is not 2xx) or a response with a body.
\* server[url] is the set of bodies the server may answer a request to url with.
Replies(server, url) ==
    {[ok |-> FALSE, response |-> None]}
        \cup {[ok |-> TRUE, response |-> [t |-> "response", json |-> b]] :
                 b \in IF url \in DOMAIN server THEN server[url] ELSE {Dict(<<>>)}}

RequestEvent(i, att, step, req, ok) ==
    [ev |-> "request", step |-> i, attempt |-> att, method |-> step.method,
     url |-> req.url, headers |-> req.headers,
     body |-> IF step.method = "GET" THEN req.params ELSE req.data,
     ok |-> ok]

\* one attempt too many
LastAttemptOffByOne(att, step) == att = step.max_retries + 1

\* if attempt == step["max_retries"]
LastAttempt(att, step) == att = step.max_retries

\* a failed attempt that sleeps before it raises on the last attempt
AttemptFailedSleepFirst(step, err, events) ==
    IF LastAttempt(attempt, step)
    THEN /\ Record(step, Failed(step.name, err))
         /\ log' = log \o events \o <<[ev |-> "backoff", step |-> idx]>>
         /\ UNCHANGED context
    ELSE /\ attempt' = attempt + 1
         /\ log' = log \o events \o <<[ev |-> "backoff", step |-> idx]>>
         /\ UNCHANGED <<results, context, pc, idx, prepared>>

\* a failed attempt that binds the response key on the last attempt
AttemptFailedBindsResponse(step, err, events) ==
    IF LastAttempt(attempt, step)
    THEN /\ Record(step, Failed(step.name, err))
         /\ log' = log \o events
         /\ context' = (ResponseKey(step.name) :> None) @@ context
    ELSE /\ attempt' = attempt + 1
         /\ log' = log \o events \o <<[ev |-> "backoff", step |-> idx]>>
         /\ UNCHANGED <<results, context, pc, idx, prepared>>

\* except Exception: re-raise on the last attempt, else sleep(1) and go on
AttemptFailed(step, err, events) ==
    IF LastAttempt(attempt, step)
    THEN /\ Record(step, Failed(step.name, err))
         /\ log' = log \o events
         /\ UNCHANGED context
    ELSE /\ attempt' = attempt + 1
         /\ log' = log \o events \o <<[ev |-> "backoff", step |-> idx]>>
         /\ UNCHANGED <<results, context, pc, idx, prepared>>

\* an iteration of the retry loop that does not retry an unsupported method
AttemptRejectsAtOnce(server) ==
    /\ pc = "attempt"
    /\ LET step == steps[idx]
       IN IF step.method \in {"GET", "POST"}
          THEN \E reply \in Replies(server, prepared.url) :
                  LET event == RequestEvent(idx, attempt, step, prepared, reply.ok)
                  IN IF reply.ok
                     THEN LET s == Succeeded(step, reply.response, context)
                          IN /\ context' = s.context
                             /\ Record(step, s.result)
                             /\ log' = Append(log, event)
                     ELSE AttemptFailed(step, Err("RequestException", ""), <<event>>)
          ELSE /\ Record(step, Failed(step.name, Err("ValueError", step.method)))
               /\ UNCHANGED <<log, context>>
    /\ UNCHANGED steps

\* One iteration of the retry loop of execute_step, and on its break the rest
\* of execute_step and of the iteration of execute()
Attempt(server) ==
    /\ pc = "attempt"
    /\ LET step == steps[idx]
       IN IF step.method \in {"GET", "POST"}
          THEN \E reply \in Replies(server, prepared.url) :
                  LET event == RequestEvent(idx, attempt, step, prepared, reply.ok)
                  IN IF reply.ok
                     THEN LET s == Succeeded(step, reply.response, context)
                          IN /\ context' = s.context
                             /\ Record(step, s.result)
                             /\ log' = Append(log, event)
                     ELSE AttemptFailed(step, Err("RequestException", ""), <<event>>)
          ELSE AttemptFailed(step, Err("ValueError", step.method), <<>>)
    /\ UNCHANGED steps

-----------------------------------------------------------------------------
(* The steps and the servers of the specifications *)

Names == {"A", "B", "C"}

PlainUrl == Str("http://host/plain")

\* add_step(name, url) with every other argument at its default, but for
\* max_retries, which is given as 0
PlainArgs(name) ==
    [name |-> name, url |-> PlainUrl, method |-> "GET", headers |-> None,
     data |-> None, depends_on |-> None, condition |-> None, extract |-> None,
     max_retries |-> 0, delay |-> 0, params |-> None,
     continue_on_failure |-> FALSE]

PlainServer == (PlainUrl :> {Dict(<<>>)})

\* Spec: steps that differ in their name, their dependencies, their
\* condition and continue_on_failure, against a session whose requests
\* succeed or fail.
DependsOnOf(name) ==
    CASE name = "A" -> {None, List(<<"C">>)}
      [] name = "B" -> {None, List(<<"A">>)}
      [] name = "C" -> {List(<<"B">>), List(<<"A", "B">>)}

ConstFalse == [t |-> "fn_const", v |-> Bool(FALSE)]
AlwaysRaises == [t |-> "fn_raises"]

CoreArgs ==
    UNION {{[PlainArgs(n) EXCEPT !.depends_on = d, !.continue_on_failure = f] :
               d \in DependsOnOf(n), f \in BOOLEAN} : n \in Names}
      \cup {[PlainArgs("B") EXCEPT !.depends_on = d, !.condition = c] :
               d \in DependsOnOf("B"), c \in {ConstFalse, AlwaysRaises}}

Next ==
    \/ AddStep(CoreArgs)
    \/ ExecuteBegin
    \/ LoopStep
    \/ Attempt(PlainServer)

Spec == Init /\ [][Next]_vars

\* SpecRetry: step A with max_retries from 0 to MaxRetries and a method given
\* in upper or lower case, supported or not, and step B after it.
RetryArgs ==
    {[PlainArgs("A") EXCEPT !.max_retries = r, !.method = m] :
        r \in 0..MaxRetries, m \in {"GET", "post", "put"}}
      \cup {[PlainArgs("B") EXCEPT !.max_retries = 1]}

NextRetry ==
    \/ AddStep(RetryArgs)
    \/ ExecuteBegin
    \/ LoopStep
    \/ Attempt(PlainServer)

SpecRetry == Init /\ [][NextRetry]_vars

\* SpecRetryFair: SpecRetry with a runner that goes on running and a session
\* whose calls return or raise: an iteration of the for loop that can be
\* taken is taken, and an attempt that is under way comes to its end.
SpecRetryFair ==
    /\ Init
    /\ [][NextRetry]_vars
    /\ WF_vars(LoopStep)
    /\ WF_vars(Attempt(PlainServer))

\* SpecExtract: step A extracts origin_ip from the body, step B extracts it
\* again or has a rule that resolves on no body, step C reads origin_ip from
\* the context in its headers, its data or its condition.
ExtractUrl == Str("http://host/get")
OriginPath == Chars(<<"o", "r", "i", "g", "i", "n">>)
OriginBody(v) == Dict(<< <<OriginPath.c, v>> >>)
ExtractBodies ==
    {OriginBody(Str("1.2.3.4")), OriginBody(Str("5.6.7.8")), OriginBody(None),
     List(<<>>), JsonRaises}
ExtractServer == (ExtractUrl :> ExtractBodies) @@ PlainServer

OriginRule == Dict(<< <<"origin_ip", OriginPath>> >>)
MissingRule == Dict(<< <<"y", Chars(<<"a", ".", "z">>)>>, <<"origin_ip", OriginPath>> >>)
HeaderFn == [t |-> "fn_dict", name |-> "X-Client-IP", key |-> "origin_ip"]
DataFn == [t |-> "fn_dict", name |-> "client_ip", key |-> "origin_ip"]

ExtractArgs ==
    {[PlainArgs("A") EXCEPT !.url = ExtractUrl, !.extract = OriginRule,
                            !.continue_on_failure = f] : f \in BOOLEAN}
      \cup {[PlainArgs("B") EXCEPT !.url = ExtractUrl, !.extract = e] :
               e \in {OriginRule, MissingRule}}
      \cup {[PlainArgs("C") EXCEPT !.headers = HeaderFn],
            [PlainArgs("C") EXCEPT !.data = DataFn, !.method = "POST"],
            [PlainArgs("C") EXCEPT !.condition = [t |-> "fn_has", key |-> "origin_ip"]],
            [PlainArgs("C") EXCEPT
                !.headers = Dict(<< <<"X-Client-IP", Tmpl("origin_ip")>> >>)]}

NextExtract ==
    \/ AddStep(ExtractArgs)
    \/ ExecuteBegin
    \/ LoopStep
    \/ Attempt(ExtractServer)

SpecExtract == Init /\ [][NextExtract]_vars

\* SpecRerun: execute() called up to MaxRuns times on one instance whose
\* steps extract origin_ip or ask the context for it.
RerunArgs ==
    {[PlainArgs("A") EXCEPT !.url = ExtractUrl, !.extract = OriginRule],
     PlainArgs("B"),
     [PlainArgs("C") EXCEPT !.condition = [t |-> "fn_has", key |-> "origin_ip"]]}

NextRerun ==
    \/ AddStep(RerunArgs)
    \/ ExecuteBegin
    \/ ExecuteAgain
    \/ LoopStep
    \/ Attempt(ExtractServer)

SpecRerun == Init /\ [][NextRerun]_vars

\* SpecDynamic: step A with a function for its headers, step B with one for
\* its params, step C with one for its data; the function raises, returns
\* None, returns a str, or returns a mapping.
FieldFns ==
    {[t |-> "fn_raises"],
     [t |-> "fn_const", v |-> None],
     [t |-> "fn_const", v |-> Str("abc")],
     [t |-> "fn_const", v |-> Dict(<< <<"k", Str("v")>> >>)]}

DynamicArgs ==
    {[PlainArgs("A") EXCEPT !.headers = f] : f \in FieldFns}
      \cup {[PlainArgs("B") EXCEPT !.params = f] : f \in FieldFns}
      \cup {[PlainArgs("C") EXCEPT !.data = f, !.method = "POST"] : f \in FieldFns}

NextDynamic ==
    \/ AddStep(DynamicArgs)
    \/ ExecuteBegin
    \/ LoopStep
    \/ Attempt(PlainServer)

SpecDynamic == Init /\ [][NextDynamic]_vars

\* SpecFormat: steps with a placeholder for a key that is never in the
\* context, "{token}", or with the malformed "{", in the url or in a str
\* value of the headers, the params or the data.
Placeholders == {Tmpl("token"), BadTmpl}
WithPlaceholder(p) == Dict(<< <<"X-Token", p>> >>)

FormatArgs ==
    {[PlainArgs("A") EXCEPT !.url = p] : p \in Placeholders}
      \cup {[PlainArgs("B") EXCEPT !.headers = WithPlaceholder(p)] : p \in Placeholders}
      \cup {[PlainArgs("B") EXCEPT !.params = WithPlaceholder(p)] : p \in Placeholders}
      \cup {[PlainArgs("C") EXCEPT !.data = WithPlaceholder(p), !.method = "POST"] :
               p \in Placeholders}

NextFormat ==
    \/ AddStep(FormatArgs)
    \/ ExecuteBegin
    \/ LoopStep
    \/ Attempt(PlainServer)

SpecFormat == Init /\ [][NextFormat]_vars

\* SpecMethod: steps named after the method they are given, in upper, lower
\* or mixed case, supported or not, with no retry or with one.
Methods == {"GET", "get", "Get", "POST", "post", "PUT", "put"}

MethodArgs ==
    {[PlainArgs(m) EXCEPT !.method = m, !.max_retries = r] : m \in Methods, r \in 0..1}

NextMethod ==
    \/ AddStep(MethodArgs)
    \/ ExecuteBegin
    \/ LoopStep
    \/ Attempt(PlainServer)

SpecMethod == Init /\ [][NextMethod]_vars

\* SpecHeaders: steps that supply no headers, a User-Agent, an Accept, both,
\* or a user-agent in lower case, as a mapping of strs, as a mapping with a
\* function for a value, or through a header function.
CustomAgent == Str("SequenceExtractor/1.0")
CustomAccept == Str("text/html")
HeaderMappings ==
    {Dict(<< <<"User-Agent", CustomAgent>> >>),
     Dict(<< <<"Accept", CustomAccept>> >>),
     Dict(<< <<"Accept", CustomAccept>>, <<"User-Agent", CustomAgent>> >>),
     Dict(<< <<"user-agent", CustomAgent>> >>)}
SuppliedHeaders ==
    {None, Dict(<< <<"User-Agent", [t |-> "fn_const", v |-> CustomAgent]>> >>)}
      \cup HeaderMappings
      \cup {[t |-> "fn_const", v |-> h] : h \in HeaderMappings}

HeadersArgs ==
    {[PlainArgs("A") EXCEPT !.headers = h] : h \in SuppliedHeaders}
      \cup {[PlainArgs("B") EXCEPT !.headers = h, !.method = "POST"] :
               h \in HeaderMappings}

NextHeaders ==
    \/ AddStep(HeadersArgs)
    \/ ExecuteBegin
    \/ LoopStep
    \/ Attempt(PlainServer)

SpecHeaders == Init /\ [][NextHeaders]_vars

\* SpecDelay: step A with or without a delay and with or without a retry,
\* step B with a delay, with or without a dependency on A and a condition
\* that returns false, step C with a delay and a header function that raises.
DelayArgs ==
    {[PlainArgs("A") EXCEPT !.delay = d, !.max_retries = r, !.continue_on_failure = TRUE] :
        d \in 0..1, r \in 0..1}
      \cup {[PlainArgs("B") EXCEPT !.delay = 1, !.depends_on = d, !.condition = c] :
               d \in {None, List(<<"A">>)}, c \in {None, ConstFalse}}
      \cup {[PlainArgs("C") EXCEPT !.delay = 1, !.headers = AlwaysRaises]}

NextDelay ==
    \/ AddStep(DelayArgs)
    \/ ExecuteBegin
    \/ LoopStep
    \/ Attempt(PlainServer)

SpecDelay == Init /\ [][NextDelay]_vars

\* SpecCollide: the steps of SpecExtract, and a step A with a rule whose key
\* is the key its response is bound under.
CollideArgs ==
    ExtractArgs
      \cup {[PlainArgs("A") EXCEPT !.url = ExtractUrl,
                !.extract = Dict(<< <<"A_response", OriginPath>> >>)]}

NextCollide ==
    \/ AddStep(CollideArgs)
    \/ ExecuteBegin
    \/ LoopStep
    \/ Attempt(ExtractServer)

SpecCollide == Init /\ [][NextCollide]_vars

\* SpecIsolate: step A with two rules, one with a path that is a number and
\* one for origin_ip, in either order; step B extracts origin_ip; step C
\* extracts nothing.
NumberPath == Num(7)
IsolateArgs ==
    {[PlainArgs("A") EXCEPT !.url = ExtractUrl, !.extract = e] :
        e \in {Dict(<< <<"x", NumberPath>>, <<"origin_ip", OriginPath>> >>),
               Dict(<< <<"origin_ip", OriginPath>>, <<"x", NumberPath>> >>)}}
      \cup {[PlainArgs("B") EXCEPT !.url = ExtractUrl, !.extract = OriginRule],
            PlainArgs("C")}

NextIsolate ==
    \/ AddStep(IsolateArgs)
    \/ ExecuteBegin
    \/ LoopStep
    \/ Attempt(ExtractServer)

SpecIsolate == Init /\ [][NextIsolate]_vars

\* SpecOverlap: the chain A, B on A, C on B, in any order and number, run by
\* one call of execute() while another call begins on the same instance.
OverlapArgs ==
    {PlainArgs("A"),
     [PlainArgs("B") EXCEPT !.depends_on = List(<<"A">>)],
     [PlainArgs("C") EXCEPT !.depends_on = List(<<"B">>)]}

NextOverlap ==
    \/ AddStep(OverlapArgs)
    \/ ExecuteBegin
    \/ ExecuteOverlapping
    \/ LoopStep
    \/ Attempt(PlainServer)

SpecOverlap == Init /\ [][NextOverlap]_vars

\* SpecPath: one step with one extraction rule, over paths and bodies that
\* differ in the case of their keys, in their nesting and in their leaves.
PathUrl == Str("http://host/json")
Key(c) == <<c>>
NestedBody ==       \* {"a": {"B": {"c": 5}}}
    Dict(<< <<Key("a"), Dict(<< <<Key("B"), Dict(<< <<Key("c"), Num(5)>> >>)>> >>)>> >>)
PathBodies ==
    {NestedBody,
     \* {"a": {"b": 1, "B": 2, "z": null}}
     Dict(<< <<Key("a"), Dict(<< <<Key("b"), Num(1)>>, <<Key("B"), Num(2)>>,
                                 <<Key("z"), None>> >>)>> >>),
     \* {"A": {"B": {"C": 3}}, "a": 4}
     Dict(<< <<Key("A"), Dict(<< <<Key("B"), Dict(<< <<Key("C"), Num(3)>> >>)>> >>)>>,
             <<Key("a"), Num(4)>> >>),
     \* {"aB": {"c": 1}, "Ab": {"c": 2}}
     Dict(<< <<<<"a", "B">>, Dict(<< <<Key("c"), Num(1)>> >>)>>,
             <<<<"A", "b">>, Dict(<< <<Key("c"), Num(2)>> >>)>> >>),
     \* {"A": {"z": 6}, "": {"": 7}}
     Dict(<< <<Key("A"), Dict(<< <<Key("z"), Num(6)>> >>)>>,
             <<<<>>, Dict(<< <<<<>>, Num(7)>> >>)>> >>),
     List(<<>>),
     JsonRaises}
PathServer == (PathUrl :> PathBodies) @@ PlainServer

Paths ==
    {Chars(<<"a", ".", "b", ".", "c">>),
     Chars(<<"a", ".", "z">>),
     Chars(<<"a", ".", "b">>),
     Chars(<<"a", ".", "B">>),
     Chars(<<"a", "b", ".", "c">>),
     Chars(<<".">>),
     Chars(<<"a", ".">>),
     Chars(<<"a">>)}

PathArgs ==
    {[PlainArgs("A") EXCEPT !.url = PathUrl, !.extract = Dict(<< <<"x", p>> >>)] :
        p \in Paths}

NextPath ==
    \/ AddStep(PathArgs)
    \/ ExecuteBegin
    \/ LoopStep
    \/ Attempt(PathServer)

SpecPath == Init /\ [][NextPath]_vars

-----------------------------------------------------------------------------
(* What a run has done, read from its history and its results *)

Entered(i) == \E k \in DOMAIN log : log[k].ev = "enter" /\ log[k].step = i
\* execute_step has returned for step number i and its result is stored
Finished(i) == Entered(i) /\ ResultsHas(results, steps[i].name)
ResultOf(i) == ResultsAt(results, steps[i].name)
RequestEvents(i) == {k \in DOMAIN log : log[k].ev = "request" /\ log[k].step = i}
ResultNames == {results[k].name : k \in DOMAIN results}
EnteredUpTo(i) == {j \in 1..i : Entered(j)}

-----------------------------------------------------------------------------
(* C1 *)

\* C1: once a step without continue_on_failure has a failed result, the run
\* is over: execute() has returned, no later step was entered and no request
\* was made for one, and the results are those of the steps entered up to
\* the failed one, the failed one last.
C1_HaltsOnFailure ==
    \A i \in DOMAIN steps :
        (Finished(i) /\ ~ResultOf(i).success /\ ~steps[i].continue_on_failure)
        => /\ pc = "done"
           /\ \A k \in DOMAIN log : log[k].step <= i
           /\ \A j \in DOMAIN steps : j > i => ~Entered(j)
           /\ ResultNames = {steps[j].name : j \in EnteredUpTo(i)}
           /\ Len(results) = Cardinality(EnteredUpTo(i))
           /\ results[Len(results)].name = steps[i].name

\* three steps, the first succeeded and the second failed
C1_Witness ==
    /\ Len(steps) = 3
    /\ Finished(1) /\ ResultOf(1).success
    /\ Finished(2) /\ ~ResultOf(2).success /\ ~steps[2].continue_on_failure
    /\ RequestEvents(2) # {}

-----------------------------------------------------------------------------
(* C2 *)

\* the dependency check of the step at idx is about to run
AtDependencyCheck == pc = "loop" /\ ~ResultsHas(results, steps[idx].name)
\* depends_on[m] of the step at idx has no result or a failed one
Unsatisfied(m) ==
    LET d == steps[idx].depends_on[m]
    IN ~ResultsHas(results, d) \/ ~ResultsAt(results, d).success
\* the iteration at idx ends with a failed result and without a request
FailsWithoutRequest ==
    /\ ResultsHas(results', steps[idx].name)
    /\ ~ResultsAt(results', steps[idx].name).success
    /\ ResultsAt(results', steps[idx].name).error # None
    /\ ResultsAt(results', steps[idx].name).error.kind = "Dependency"
    /\ pc' # "attempt"
    /\ \A k \in DOMAIN log' : ~(log'[k].ev = "request" /\ log'[k].step = idx)

\* C2 as stated: for every unsatisfied name of depends_on, the step fails
\* without a request and its error names that name.
C2_ErrorNamesEveryDependency ==
    [][AtDependencyCheck =>
          \A m \in DOMAIN steps[idx].depends_on :
              Unsatisfied(m) =>
                  /\ FailsWithoutRequest
                  /\ ResultsAt(results', steps[idx].name).error.about
                        = steps[idx].depends_on[m]]_vars

\* C2, amended: if some name of depends_on is unsatisfied, the step fails
\* without a request, and its error names the first unsatisfied name in the
\* order of depends_on.
C2_ErrorNamesFirstDependency ==
    [][AtDependencyCheck =>
          \A m \in DOMAIN steps[idx].depends_on :
              (Unsatisfied(m) /\ \A j \in 1..(m - 1) : ~Unsatisfied(j)) =>
                  /\ FailsWithoutRequest
                  /\ ResultsAt(results', steps[idx].name).error.about
                        = steps[idx].depends_on[m]]_vars

\* a step has failed on a dependency whose result is there and is a failure,
\* and another on a dependency that has no result
C2_Witness ==
    \E i, j \in DOMAIN steps :
        /\ Finished(i) /\ ~ResultOf(i).success
        /\ ResultOf(i).error.kind = "Dependency"
        /\ ResultsHas(results, ResultOf(i).error.about)
        /\ ~ResultsAt(results, ResultOf(i).error.about).success
        /\ RequestEvents(i) = {}
        /\ Finished(j) /\ ~ResultOf(j).success
        /\ ResultOf(j).error.kind = "Dependency"
        /\ ~ResultsHas(results, ResultOf(j).error.about)

-----------------------------------------------------------------------------
(* C3 *)

ChainA == StepOf(PlainArgs("A"))
ChainB == StepOf([PlainArgs("B") EXCEPT !.depends_on = List(<<"A">>)])
ChainC == StepOf([PlainArgs("C") EXCEPT !.depends_on = List(<<"B">>)])
AllRequestsOk == \A k \in DOMAIN log : log[k].ev = "request" => log[k].ok

\* C3: steps are entered in the order of the list; a step with a dependency
\* that no earlier position of the list registers fails its dependency check;
\* [A, B, C] with C on B on A ends in three successes when every request
\* succeeds, and [C, B, A] ends with the failed result of C alone.
C3_NoReordering ==
    /\ \A k1, k2 \in DOMAIN log :
          (k1 < k2 /\ log[k1].ev = "enter" /\ log[k2].ev = "enter")
          => log[k1].step < log[k2].step
    /\ \A i \in DOMAIN steps :
          (/\ Finished(i)
           /\ \E m \in DOMAIN steps[i].depends_on :
                 \A j \in 1..(i - 1) : steps[j].name # steps[i].depends_on[m])
          => /\ ~ResultOf(i).success
             /\ ResultOf(i).error.kind = "Dependency"
             /\ RequestEvents(i) = {}
    /\ (pc = "done" /\ steps = <<ChainA, ChainB, ChainC>> /\ AllRequestsOk)
          => /\ Len(results) = 3
             /\ \A k \in 1..3 : results[k].name = steps[k].name /\ results[k].success
    /\ (pc = "done" /\ steps = <<ChainC, ChainB, ChainA>>)
          => /\ results = <<Failed("C", Err("Dependency", "B"))>>
             /\ ~Entered(2) /\ ~Entered(3)
             /\ \A k \in DOMAIN log : log[k].ev # "request"

\* [C, B, A] has run
C3_Witness == pc = "done" /\ steps = <<ChainC, ChainB, ChainA>>

-----------------------------------------------------------------------------
(* C4 *)

\* C4: a step whose condition was called and returned false has made no
\* request, and its result is success with data {"skipped": True}, no error
\* and no response.
C4_FalseConditionSkips ==
    \A k \in DOMAIN log :
        (log[k].ev = "condition" /\ ~log[k].raised /\ log[k].value = Bool(FALSE))
        => /\ RequestEvents(log[k].step) = {}
           /\ ResultsHas(results, steps[log[k].step].name)
           /\ ResultOf(log[k].step).success
           /\ ResultOf(log[k].step).data = ("skipped" :> Bool(TRUE))
           /\ ResultOf(log[k].step).error = None
           /\ ResultOf(log[k].step).response = None

\* a step with a satisfied dependency whose condition returned false
C4_Witness ==
    \E k \in DOMAIN log :
        /\ log[k].ev = "condition" /\ ~log[k].raised /\ log[k].value = Bool(FALSE)
        /\ steps[log[k].step].depends_on # <<>>

-----------------------------------------------------------------------------
(* C6 *)

NoDependencies == \A i \in DOMAIN steps : steps[i].depends_on = <<>>
\* step number i was skipped by its condition
SkippedByCondition(i) ==
    \E k \in DOMAIN log :
        /\ log[k].ev = "condition" /\ log[k].step = i
        /\ (log[k].raised \/ Falsy(log[k].value))
\* every step that was entered was skipped or has made a request that succeeded
AllWentWell ==
    \A i \in DOMAIN steps :
        Entered(i) =>
            \/ SkippedByCondition(i)
            \/ \E k \in RequestEvents(i) : log[k].ok
\* the positions of the list that register a name for the first time
FirstOccurrences ==
    {i \in DOMAIN steps : \A j \in 1..(i - 1) : steps[j].name # steps[i].name}
NthFirstOccurrence(m) ==
    CHOOSE i \in FirstOccurrences : Cardinality({j \in FirstOccurrences : j < i}) = m - 1

\* C6 as stated: without dependencies and with every request succeeding,
\* execute() returns one successful result per registered step, in the order
\* of the list.
C6_OneResultPerStep ==
    (pc = "done" /\ NoDependencies /\ AllRequestsOk)
    => /\ Len(results) = Len(steps)
       /\ \A i \in DOMAIN steps : results[i].name = steps[i].name /\ results[i].success

\* C6, amended: without dependencies and with every entered step skipped or
\* its request succeeding, execute() returns one successful result per
\* distinct name, in the order in which the names are first registered.
C6_OneResultPerName ==
    (pc = "done" /\ NoDependencies /\ AllWentWell)
    => /\ Len(results) = Cardinality(FirstOccurrences)
       /\ \A m \in DOMAIN results :
             /\ results[m].name = steps[NthFirstOccurrence(m)].name
             /\ results[m].success

\* a list of three steps that registers a name twice has run
C6_Witness ==
    /\ pc = "done" /\ NoDependencies /\ AllWentWell
    /\ Len(steps) = 3 /\ Len(results) = 2
    /\ RequestEvents(1) # {} /\ RequestEvents(2) # {}

-----------------------------------------------------------------------------
(* C10 *)

\* C10: a step whose condition raised has made no request, its result is
\* success with data {"skipped": True} and no error, and the for loop of
\* execute() has gone on past it.
C10_RaisingConditionSkips ==
    \A k \in DOMAIN log :
        (log[k].ev = "condition" /\ log[k].raised)
        => /\ RequestEvents(log[k].step) = {}
           /\ ResultsHas(results, steps[log[k].step].name)
           /\ ResultOf(log[k].step).success
           /\ ResultOf(log[k].step).data = ("skipped" :> Bool(TRUE))
           /\ ResultOf(log[k].step).error = None
           /\ idx > log[k].step
           /\ (pc = "done" =>
                 \/ idx > Len(steps)
                 \/ (Finished(idx) /\ ~ResultOf(idx).success))

\* the condition of a step raised and the step after it was entered
C10_Witness ==
    \E k \in DOMAIN log :
        /\ log[k].ev = "condition" /\ log[k].raised
        /\ Entered(log[k].step + 1)

-----------------------------------------------------------------------------
(* C5 *)

\* step number i has reached its retry loop with a method that is dispatched
Dispatched(i) ==
    /\ \E k \in DOMAIN log : log[k].ev = "dispatch" /\ log[k].step = i
    /\ steps[i].method \in {"GET", "POST"}
FailedRequests(i) == {k \in RequestEvents(i) : ~log[k].ok}

\* C5: a step with max_retries = n >= 0 that has reached dispatch makes at
\* most n + 1 requests, one after the other and none after one that succeeded;
\* once it has ended, either one request succeeded, the requests are those
\* that failed and that one, and the result is a success, or none did, there
\* are exactly n + 1 of them, and the result is a failure.
C5_BoundedRetry ==
    \A i \in DOMAIN steps :
        (Dispatched(i) /\ steps[i].max_retries >= 0)
        => /\ Cardinality(RequestEvents(i)) <= steps[i].max_retries + 1
           /\ \A k \in RequestEvents(i) :
                 /\ log[k].attempt = Cardinality({k2 \in RequestEvents(i) : k2 < k})
                 /\ log[k].ok => \A k2 \in RequestEvents(i) : k2 <= k
           /\ ~Finished(i) =>
                 /\ pc = "attempt" /\ idx = i
                 /\ FailedRequests(i) = RequestEvents(i)
                 /\ attempt = Cardinality(RequestEvents(i))
           /\ Finished(i) =>
                 IF \E k \in RequestEvents(i) : log[k].ok
                 THEN /\ ResultOf(i).success
                      /\ Cardinality(RequestEvents(i)) = Cardinality(FailedRequests(i)) + 1
                 ELSE /\ ~ResultOf(i).success
                      /\ Cardinality(RequestEvents(i)) = steps[i].max_retries + 1

\* max_retries = 2: two requests failed, the third succeeded
C5_Witness ==
    \E i \in DOMAIN steps :
        /\ Dispatched(i) /\ Finished(i) /\ ResultOf(i).success
        /\ steps[i].max_retries = 2
        /\ Cardinality(FailedRequests(i)) = 2
        /\ Cardinality(RequestEvents(i)) = 3

-----------------------------------------------------------------------------
(* C8 *)

RECURSIVE JoinDots(_)
JoinDots(parts) ==
    IF Len(parts) = 1 THEN parts[1]
    ELSE parts[1] \o <<".">> \o JoinDots(Tail(parts))

\* What the walk of C8 may end in, from cursor cur over the segments parts:
\* the cursor when no segment is left; absent when the cursor is no mapping;
\* the walk from the value of a key equal to the segment when there is one,
\* else from the value of a key equal to it up to case, else absent.
RECURSIVE Acceptable(_, _)
Acceptable(cur, parts) ==
    IF parts = <<>> THEN {cur}
    ELSE IF ~IsDict(cur) THEN {None}
    ELSE LET exact == {j \in DOMAIN cur.kv : cur.kv[j][1] = Head(parts)}
             anycase == {j \in DOMAIN cur.kv : Lower(cur.kv[j][1]) = Lower(Head(parts))}
         IN IF exact # {}
            THEN UNION {Acceptable(cur.kv[j][2], Tail(parts)) : j \in exact}
            ELSE IF anycase # {}
            THEN UNION {Acceptable(cur.kv[j][2], Tail(parts)) : j \in anycase}
            ELSE {None}

\* step number i has succeeded on a request, with one rule whose path has a dot
DotPathExtracted(i) ==
    /\ Finished(i) /\ ResultOf(i).success /\ ResultOf(i).response # None
    /\ Len(steps[i].extract) = 1
    /\ steps[i].extract[1][2].t = "chars"
    /\ HasDot(steps[i].extract[1][2].c)

\* C8: the segments of a path are its pieces between the dots; the value
\* extracted for a path with a dot from a body that is a mapping is one the
\* walk may end in, and nothing is extracted exactly when the walk ends in
\* absent; from {"a": {"B": {"c": 5}}}, "a.b.c" yields 5 and "a.z" nothing.
C8_DotPathResolution ==
    \A i \in DOMAIN steps :
        DotPathExtracted(i) =>
            LET key == steps[i].extract[1][1]
                path == steps[i].extract[1][2].c
                body == ResultOf(i).response.json
                data == ResultOf(i).data
                ends == IF body # JsonRaises /\ IsDict(body)
                        THEN Acceptable(body, SplitDots(path))
                        ELSE {None}
            IN /\ JoinDots(SplitDots(path)) = path
               /\ \A m \in DOMAIN SplitDots(path) : ~HasDot(SplitDots(path)[m])
               /\ DOMAIN data \subseteq {key}
               /\ key \in DOMAIN data => data[key] \in ends \ {None}
               /\ key \notin DOMAIN data => None \in ends
               /\ (body = NestedBody /\ path = <<"a", ".", "b", ".", "c">>)
                     => data = (key :> Num(5))
               /\ (body = NestedBody /\ path = <<"a", ".", "z">>)
                     => data = EmptyDict

\* "a.b.c" has been extracted from {"a": {"B": {"c": 5}}}
C8_Witness ==
    \E i \in DOMAIN steps :
        /\ DotPathExtracted(i)
        /\ ResultOf(i).response.json = NestedBody
        /\ steps[i].extract[1][2].c = <<"a", ".", "b", ".", "c">>
        /\ ResultOf(i).data = ("x" :> Num(5))

-----------------------------------------------------------------------------
(* C7 *)

\* the results a request has filled the data of with a value for k
Extractions(k) ==
    {m \in DOMAIN results : results[m].response # None /\ k \in DOMAIN results[m].data}
ExtractedKeys == UNION {DOMAIN results[m].data : m \in Extractions("origin_ip") \cup Extractions("y")}
Latest(S) == CHOOSE m \in S : \A n \in S : n <= m

\* the results stored before step number i was entered
ResultsBefore(i) ==
    IF ResultsHas(results, steps[i].name)
    THEN {m \in DOMAIN results : m < CHOOSE n \in DOMAIN results : results[n].name = steps[i].name}
    ELSE DOMAIN results

\* what step number i finds under k: the value the latest step before it
\* extracted, or nothing
ExtractedBefore(i, k) == Extractions(k) \cap ResultsBefore(i)
Observed(i, k, default) ==
    IF ExtractedBefore(i, k) = {} THEN default
    ELSE results[Latest(ExtractedBefore(i, k))].data[k]

-----------------------------------------------------------------------------
(* C9 *)

\* the body cannot be parsed, is no mapping, or the path leads to nothing in it
Unresolved(body, path) ==
    \/ body = JsonRaises
    \/ ~IsDict(body)
    \/ /\ path.t = "chars"
       /\ IF HasDot(path.c)
          THEN Acceptable(body, SplitDots(path.c)) = {None}
          ELSE DictGet(body, path.c) = None

\* the step in flight has had its request answered
RequestSucceeds ==
    /\ pc = "attempt"
    /\ Len(log') = Len(log) + 1
    /\ log'[Len(log')].ev = "request"
    /\ log'[Len(log')].ok

\* C9: when the request of a step succeeds the step gets a result with
\* success true and no error, whatever the body is; a rule whose path does
\* not resolve leaves its key out of the data of the result and leaves the
\* context under that key as it was.
C9_ExtractionNeverFails ==
    [][RequestSucceeds =>
          LET step == steps[idx]
              r == ResultsAt(results', step.name)
          IN /\ ResultsHas(results', step.name)
             /\ r.success
             /\ r.error = None
             /\ \A m \in DOMAIN step.extract :
                   LET key == step.extract[m][1]
                   IN Unresolved(r.response.json, step.extract[m][2])
                        => /\ key \notin DOMAIN r.data
                           /\ key \in DOMAIN context' <=> key \in DOMAIN context
                           /\ key \in DOMAIN context => context'[key] = context[key]]_vars

\* one step succeeded on a body that cannot be parsed, and another on a body
\* in which one of its two paths does not resolve
C9_Witness ==
    \E i, j \in DOMAIN steps :
        /\ Finished(i) /\ ResultOf(i).success /\ ResultOf(i).error = None
        /\ ResultOf(i).response # None
        /\ ResultOf(i).response.json = JsonRaises
        /\ steps[i].extract # <<>>
        /\ ResultOf(i).data = EmptyDict
        /\ Finished(j) /\ ResultOf(j).success /\ ResultOf(j).error = None
        /\ ResultOf(j).response # None
        /\ steps[j].extract = MissingRule.kv
        /\ DOMAIN ResultOf(j).data = {"origin_ip"}
        /\ "y" \notin DOMAIN context

-----------------------------------------------------------------------------
(* C11 *)

IsSkipped(r) == r.success /\ "skipped" \in DOMAIN r.data
\* the result that name d had when step number i was entered, if any
HadResult(i, d) == \E m \in ResultsBefore(i) : results[m].name = d
\* every name of depends_on had a successful result when step i was entered
DependenciesSucceeded(i) ==
    \A m \in DOMAIN steps[i].depends_on :
        /\ HadResult(i, steps[i].depends_on[m])
        /\ ResultsAt(results, steps[i].depends_on[m]).success
DependsOnSkipped(i) ==
    \E m \in DOMAIN steps[i].depends_on :
        /\ HadResult(i, steps[i].depends_on[m])
        /\ IsSkipped(ResultsAt(results, steps[i].depends_on[m]))
\* step number i went on to its condition or to its request
PassedDependencyCheck(i) ==
    \E k \in DOMAIN log : log[k].step = i /\ log[k].ev \in {"condition", "dispatch"}

\* C11: the for loop of execute() goes on past a skipped step, and a step
\* that was entered with every dependency successful, one of them skipped,
\* passes its dependency check: it goes on to its condition or its request
\* and does not end with a dependency error.
C11_SkippedDependencySatisfied ==
    \A i \in DOMAIN steps :
        /\ (Finished(i) /\ IsSkipped(ResultOf(i))) => idx > i
        /\ (Entered(i) /\ DependenciesSucceeded(i) /\ DependsOnSkipped(i))
             => /\ PassedDependencyCheck(i)
                /\ Finished(i) =>
                      \/ ResultOf(i).error = None
                      \/ ResultOf(i).error.kind # "Dependency"

\* a step whose dependency was skipped has made a request
C11_Witness ==
    \E i \in DOMAIN steps :
        /\ DependsOnSkipped(i)
        /\ DependenciesSucceeded(i)
        /\ RequestEvents(i) # {}

-----------------------------------------------------------------------------
(* C12 *)

\* step number i has failed and carries continue_on_failure
FailedButContinued(i) ==
    Finished(i) /\ ~ResultOf(i).success /\ steps[i].continue_on_failure
ListsInDependsOn(j, name) ==
    \E m \in DOMAIN steps[j].depends_on : steps[j].depends_on[m] = name

\* C12: after a step has failed with continue_on_failure the for loop of
\* execute() goes on; a later step that is entered and lists it in
\* depends_on ends at once with a dependency error and no request, and ends
\* the run unless it carries continue_on_failure itself; a later step that is
\* entered with every dependency successful goes on to its request.
C12_ContinueOnFailure ==
    \A i \in DOMAIN steps :
        FailedButContinued(i) =>
            /\ idx > i
            /\ \A j \in DOMAIN steps :
                  (j > i /\ Entered(j)) =>
                     /\ ListsInDependsOn(j, steps[i].name) =>
                           /\ Finished(j)
                           /\ ~ResultOf(j).success
                           /\ ResultOf(j).error # None
                           /\ ResultOf(j).error.kind = "Dependency"
                           /\ RequestEvents(j) = {}
                           /\ ~PassedDependencyCheck(j)
                           /\ IF steps[j].continue_on_failure
                              THEN idx > j
                              ELSE pc = "done" /\ idx = j
                     /\ (~ListsInDependsOn(j, steps[i].name) /\ DependenciesSucceeded(j))
                           => PassedDependencyCheck(j)

\* a step failed with continue_on_failure; after it, one that depends on it
\* failed on the dependency and one that does not has had its request answered
C12_Witness ==
    \E i, j, k \in DOMAIN steps :
        /\ FailedButContinued(i)
        /\ j > i /\ Entered(j) /\ ListsInDependsOn(j, steps[i].name)
        /\ k > i /\ Finished(k) /\ ~ListsInDependsOn(k, steps[i].name)
        /\ ResultOf(k).success /\ RequestEvents(k) # {}

-----------------------------------------------------------------------------
(* C13 *)

\* execute() has been called before on this instance, and the first step of
\* this call is about to be executed
FirstStepOfLaterCall ==
    /\ \E k \in DOMAIN log : log[k].ev = "execute"
    /\ pc = "loop"
    /\ idx = 1

\* C13: when the first step of a second call of execute() is about to be
\* executed, the context is empty and the results hold nothing.
C13_FreshContextAndResults ==
    FirstStepOfLaterCall => (context = EmptyDict /\ results = <<>>)

-----------------------------------------------------------------------------
(* C14 *)

\* f is a function that raises or returns something that is not a mapping
FailsToGiveMapping(f) ==
    /\ IsCallable(f)
    /\ \/ Call(f, context).raised
       \/ ~IsDict(Call(f, context).v)
DynamicFieldFails(i) ==
    \/ FailsToGiveMapping(steps[i].headers)
    \/ FailsToGiveMapping(steps[i].params)
    \/ FailsToGiveMapping(steps[i].data)

\* C14: a step whose function for headers, params or data raises or returns
\* something that is not a mapping has ended with success false and an
\* error, and has made no request.
C14_DynamicFieldFailureIsHard ==
    \A i \in DOMAIN steps :
        (Entered(i) /\ DynamicFieldFails(i))
        => /\ Finished(i)
           /\ ~ResultOf(i).success
           /\ ResultOf(i).error # None
           /\ RequestEvents(i) = {}

-----------------------------------------------------------------------------
(* C15 *)

\* C15: a step whose url, or whose headers, params or data have a str value,
\* with a placeholder for a key that is not in the context or with a
\* malformed placeholder, goes on to its request, and each of its requests
\* carries the str as it was written.
C15_InterpolationNeverFails ==
    \A i \in DOMAIN steps :
        Entered(i) =>
            /\ PassedDependencyCheck(i)
            /\ \A k \in RequestEvents(i) :
                  /\ log[k].url = steps[i].url
                  /\ DictHas(steps[i].headers, "X-Token")
                       => DictGet(log[k].headers, "X-Token") = DictGet(steps[i].headers, "X-Token")
                  /\ (steps[i].method = "GET" /\ steps[i].params # None)
                       => log[k].body = steps[i].params
                  /\ (steps[i].method = "POST" /\ steps[i].data # None)
                       => log[k].body = steps[i].data

-----------------------------------------------------------------------------
(* C16 *)

\* the method add_step is to store for a method given as m
UpperCased(m) ==
    CASE m \in {"GET", "get", "Get"} -> "GET"
      [] m \in {"POST", "post"} -> "POST"
      [] m \in {"PUT", "put"} -> "PUT"

\* C16: the method of a step is stored in upper case. A step whose method
\* is then neither GET nor POST is registered all the same, makes no request,
\* and ends with success false and an error that names the method. A step
\* given "get" or "post" reaches its retry loop, and its requests are GET or
\* POST requests.
C16_UnsupportedMethodRejected ==
    \A i \in DOMAIN steps :
        /\ steps[i].method = UpperCased(steps[i].name)
        /\ (Entered(i) /\ UpperCased(steps[i].name) \notin {"GET", "POST"})
             => /\ RequestEvents(i) = {}
                /\ ~Finished(i) => (pc = "attempt" /\ idx = i)
                /\ Finished(i) =>
                      /\ ~ResultOf(i).success
                      /\ ResultOf(i).response = None
                      /\ ResultOf(i).error = Err("ValueError", UpperCased(steps[i].name))
        /\ (Entered(i) /\ UpperCased(steps[i].name) \in {"GET", "POST"})
             => /\ Dispatched(i)
                /\ Finished(i) => RequestEvents(i) # {}
                /\ \A k \in RequestEvents(i) : log[k].method = UpperCased(steps[i].name)

\* a step given "post" has had its request answered, and one given "put"
\* with one retry has failed after it
C16_Witness ==
    \E i, j \in DOMAIN steps :
        /\ steps[i].name = "post" /\ Finished(i) /\ ResultOf(i).success
        /\ \E k \in RequestEvents(i) : log[k].method = "POST" /\ log[k].ok
        /\ steps[j].name = "put" /\ steps[j].max_retries = 1
        /\ Finished(j) /\ ~ResultOf(j).success

-----------------------------------------------------------------------------
(* C17 *)

\* only first occurrences of a name are entered, each name at most once, and
\* every request is made for a first occurrence
OnlyFirstOccurrencesRun ==
    /\ \A i \in DOMAIN steps : Entered(i) => i \in FirstOccurrences
    /\ \A k1, k2 \in DOMAIN log :
          (k1 # k2 /\ log[k1].ev = "enter" /\ log[k2].ev = "enter")
          => steps[log[k1].step].name # steps[log[k2].step].name
    /\ \A k \in DOMAIN log : log[k].ev = "request" => log[k].step \in FirstOccurrences
\* an iteration at a step whose name has a result changes nothing but the
\* position of the loop
PassesOverKnownName ==
    (pc = "loop" /\ ResultsHas(results, steps[idx].name))
    => /\ results' = results /\ context' = context /\ log' = log
       /\ idx' = idx + 1 /\ pc' = LoopAt(idx + 1)
\* during a run a result that is stored stays as it is
ResultsStay ==
    pc # "idle" =>
        \A m \in DOMAIN results : m \in DOMAIN results' /\ results'[m] = results[m]

\* C17: in a run only the first step of each name is executed, each name at
\* most once; the iteration at a later step of a name that has a result
\* makes no request and leaves results and context as they are, and a result
\* that is stored is never replaced, a failed one kept by
\* continue_on_failure included.
C17_FirstOccurrenceOnly ==
    []OnlyFirstOccurrencesRun /\ [][PassesOverKnownName /\ ResultsStay]_vars

\* add_step has taken a name twice; the first step of that name failed with
\* continue_on_failure, and the loop has gone past the second, which was
\* not entered
C17_Witness ==
    \E i, j \in DOMAIN steps :
        /\ i < j /\ steps[i].name = steps[j].name
        /\ FailedButContinued(i)
        /\ idx > j
        /\ ~Entered(j)
        /\ Len(results) < Len(steps)

-----------------------------------------------------------------------------
(* C18 *)

\* the header mapping step number i supplies, a function called: its items
SuppliedItems(i) ==
    IF IsCallable(steps[i].headers)
    THEN Call(steps[i].headers, context).v.kv
    ELSE steps[i].headers.kv
\* the value of an item, a function called
SuppliedValue(v) == IF IsCallable(v) THEN Call(v, context).v ELSE v
Supplies(i, key) == \E m \in DOMAIN SuppliedItems(i) : SuppliedItems(i)[m][1] = key

\* C18: the headers of every request hold a User-Agent and an Accept; every
\* item the step supplies is in them with the value supplied; User-Agent and
\* Accept hold the default exactly when the step supplies none under that
\* key; and there is nothing else in them.
C18_DefaultHeaders ==
    \A k \in DOMAIN log :
        log[k].ev = "request" =>
            LET i == log[k].step
                sent == log[k].headers
            IN /\ DictHas(sent, "User-Agent")
               /\ DictHas(sent, "Accept")
               /\ \A m \in DOMAIN SuppliedItems(i) :
                     DictGet(sent, SuppliedItems(i)[m][1])
                        = SuppliedValue(SuppliedItems(i)[m][2])
               /\ ~Supplies(i, "User-Agent") => DictGet(sent, "User-Agent") = DefaultUserAgent
               /\ ~Supplies(i, "Accept") => DictGet(sent, "Accept") = DefaultAccept
               /\ \A a, b \in DOMAIN sent.kv : a # b => sent.kv[a][1] # sent.kv[b][1]
               /\ \A a \in DOMAIN sent.kv :
                     Supplies(i, sent.kv[a][1]) \/ sent.kv[a][1] \in {"User-Agent", "Accept"}

\* a request of a step whose header function gives a User-Agent and no
\* Accept carries that User-Agent and the default Accept
C18_Witness ==
    \E k \in DOMAIN log :
        /\ log[k].ev = "request"
        /\ IsCallable(steps[log[k].step].headers)
        /\ Supplies(log[k].step, "User-Agent")
        /\ DictGet(log[k].headers, "User-Agent") = CustomAgent
        /\ DictGet(log[k].headers, "Accept") = DefaultAccept

-----------------------------------------------------------------------------
(* C19 *)

Backoffs(i) == {k \in DOMAIN log : log[k].ev = "backoff" /\ log[k].step = i}
IsBackoffAt(k, i) == k \in DOMAIN log /\ log[k].ev = "backoff" /\ log[k].step = i
\* the request at k failed and was not the last the step may make
FailedNotFinal(k) ==
    /\ log[k].ev = "request" /\ ~log[k].ok
    /\ log[k].attempt < steps[log[k].step].max_retries
\* the request at k succeeded, or failed as the last the step may make
SucceededOrFinal(k) ==
    /\ log[k].ev = "request"
    /\ (log[k].ok \/ log[k].attempt = steps[log[k].step].max_retries)

\* C19: a failed request that is not the last one is followed at once by one
\* pause, and the pause by nothing or by the next request of the step; no
\* pause follows a request that succeeded or the last one that failed, and
\* there is no pause but after a failed attempt. A step that has succeeded
\* on its k-th request has paused k - 1 times, and a step that has failed
\* after its retry loop has paused max_retries times.
C19_BackoffBetweenAttempts ==
    /\ \A k \in DOMAIN log :
          /\ FailedNotFinal(k) =>
                /\ IsBackoffAt(k + 1, log[k].step)
                /\ (k + 2) \in DOMAIN log =>
                      /\ log[k + 2].ev = "request"
                      /\ log[k + 2].step = log[k].step
                      /\ log[k + 2].attempt = log[k].attempt + 1
          /\ SucceededOrFinal(k) => ~IsBackoffAt(k + 1, log[k].step)
          /\ (log[k].ev = "backoff" /\ Dispatched(log[k].step)) =>
                (k > 1 /\ FailedNotFinal(k - 1) /\ log[k - 1].step = log[k].step)
    /\ \A i \in DOMAIN steps :
          (Finished(i) /\ \E k \in DOMAIN log : log[k].ev = "dispatch" /\ log[k].step = i)
          => IF ResultOf(i).success
             THEN Cardinality(Backoffs(i)) = Cardinality(RequestEvents(i)) - 1
             ELSE Cardinality(Backoffs(i)) = steps[i].max_retries

\* a step has succeeded on its third request after two pauses, and another
\* has failed for good after one pause
C19_Witness ==
    \E i, j \in DOMAIN steps :
        /\ Finished(i) /\ ResultOf(i).success
        /\ Cardinality(RequestEvents(i)) = 3 /\ Cardinality(Backoffs(i)) = 2
        /\ Finished(j) /\ ~ResultOf(j).success
        /\ Cardinality(RequestEvents(j)) = 2 /\ Cardinality(Backoffs(j)) = 1

-----------------------------------------------------------------------------
(* C20 *)

ConditionEvents(i) == {k \in DOMAIN log : log[k].ev = "condition" /\ log[k].step = i}

\* C20: a step that was entered while a name of its depends_on had no
\* result or a failed one has not had its condition called; it has ended
\* with success false and a dependency error, not as skipped, and without a
\* request, whatever its condition is.
C20_DependenciesBeforeCondition ==
    \A i \in DOMAIN steps :
        (Entered(i) /\ ~DependenciesSucceeded(i))
        => /\ ConditionEvents(i) = {}
           /\ Finished(i)
           /\ ~ResultOf(i).success
           /\ ResultOf(i).error # None
           /\ ResultOf(i).error.kind = "Dependency"
           /\ "skipped" \notin DOMAIN ResultOf(i).data
           /\ RequestEvents(i) = {}

\* a step whose condition returns false was entered after its dependency
\* had failed, and has failed itself
C20_Witness ==
    \E i \in DOMAIN steps :
        /\ Finished(i) /\ ~ResultOf(i).success
        /\ steps[i].condition = ConstFalse
        /\ \E m \in DOMAIN steps[i].depends_on :
              /\ HadResult(i, steps[i].depends_on[m])
              /\ ~ResultsAt(results, steps[i].depends_on[m]).success

-----------------------------------------------------------------------------
(* C21 *)

DelayEvents(i) == {k \in DOMAIN log : log[k].ev = "delay" /\ log[k].step = i}
\* step number i has a delay and has passed its dependencies and its condition
DueToDelay(i) ==
    /\ Entered(i)
    /\ steps[i].delay > 0
    /\ DependenciesSucceeded(i)
    /\ ~SkippedByCondition(i)

\* C21: a step sleeps its delay at most once, and exactly once when it has a
\* delay and has passed its dependency check and its condition: after its
\* condition was called and before it reaches its retry loop and makes a
\* request, also when the resolution of its fields then fails and however
\* many requests it makes. A step that fails its dependency check or is
\* skipped by its condition does not sleep.
C21_DelayAfterChecksOnce ==
    \A i \in DOMAIN steps :
        /\ Cardinality(DelayEvents(i)) = IF DueToDelay(i) THEN 1 ELSE 0
        /\ \A k \in DelayEvents(i) :
              /\ \A c \in ConditionEvents(i) : c < k
              /\ \A r \in DOMAIN log :
                    (log[r].step = i /\ log[r].ev \in {"dispatch", "request", "backoff"})
                    => k < r

\* a step with a delay has slept once and made two requests; another with a
\* delay has slept and failed on its header function without a request
C21_Witness ==
    \E i, j \in DOMAIN steps :
        /\ Cardinality(DelayEvents(i)) = 1 /\ Cardinality(RequestEvents(i)) = 2
        /\ Cardinality(DelayEvents(j)) = 1 /\ Finished(j) /\ ~ResultOf(j).success
        /\ IsCallable(steps[j].headers)
        /\ RequestEvents(j) = {}

-----------------------------------------------------------------------------
(* C22 *)

\* the step registered under name has had a request answered and has a
\* successful result
SucceededOnRequest(name) ==
    /\ ResultsHas(results, name)
    /\ ResultsAt(results, name).success
    /\ ~IsSkipped(ResultsAt(results, name))
    /\ \E k \in DOMAIN log :
          log[k].ev = "request" /\ log[k].ok /\ steps[log[k].step].name = name

\* C22: in a run that starts with an empty context, "<name>_response" is in
\* the context exactly when the step of that name has succeeded on a
\* request, and then it holds the response of its result.
C22_ResponseBoundOnSuccess ==
    \A i \in DOMAIN steps :
        LET key == ResponseKey(steps[i].name)
        IN /\ key \in DOMAIN context <=> SucceededOnRequest(steps[i].name)
           /\ key \in DOMAIN context
                => context[key] = ResultsAt(results, steps[i].name).response

\* one step has failed, one was skipped by its condition and one has
\* succeeded: only the response of the last is in the context
C22_Witness ==
    \E i, j, k \in DOMAIN steps :
        /\ Finished(i) /\ ~ResultOf(i).success
        /\ Finished(j) /\ IsSkipped(ResultOf(j))
        /\ Finished(k) /\ SucceededOnRequest(steps[k].name)
        /\ ResponseKey(steps[i].name) \notin DOMAIN context
        /\ ResponseKey(steps[j].name) \notin DOMAIN context
        /\ ResponseKey(steps[k].name) \in DOMAIN context

-----------------------------------------------------------------------------
(* C23 *)

\* What the step at idx, its request answered, has done with its rules, but
\* for the keys in exempt: every key of the data of the result is in the
\* context with the same value; on a body that is a mapping a rule whose
\* path leads to a value that is not null has that value under its key in
\* the data and in the context, and a rule whose path leads to null has its
\* key not in the data and the context under it as before.
WritesToBoth(exempt) ==
    LET step == steps[idx]
        r == ResultsAt(results', step.name)
        body == r.response.json
    IN /\ \A key \in DOMAIN r.data \ exempt :
             key \in DOMAIN context' /\ context'[key] = r.data[key]
       /\ (body # JsonRaises /\ IsDict(body)) =>
             \A m \in DOMAIN step.extract :
                 LET key == step.extract[m][1]
                     value == RuleValue(body, step.extract[m][2])
                 IN IF value # None
                    THEN /\ key \in DOMAIN r.data /\ r.data[key] = value
                         /\ key \notin exempt =>
                               (key \in DOMAIN context' /\ context'[key] = value)
                    ELSE /\ key \notin DOMAIN r.data
                         /\ key \notin exempt =>
                               /\ key \in DOMAIN context' <=> key \in DOMAIN context
                               /\ key \in DOMAIN context => context'[key] = context[key]

\* C23 as stated: when the request of a step with extraction rules succeeds,
\* every rule whose path leads to a value that is not null has written it
\* under its key into the data of the result and into the context, a rule
\* whose path leads to null has written to neither, and the context agrees
\* with the data of the result on every key of the data.
C23_ExtractedIntoBoth ==
    [][RequestSucceeds => WritesToBoth({})]_vars

\* C23, amended: the same for every key but "<step_name>_response" of the
\* step itself, under which the context holds the response.
C23_ExtractedIntoBothButResponseKey ==
    [][RequestSucceeds =>
          /\ WritesToBoth({ResponseKey(steps[idx].name)})
          /\ context'[ResponseKey(steps[idx].name)]
                = ResultsAt(results', steps[idx].name).response]_vars

\* a step has extracted origin_ip into its result and the context, and the
\* step after it has found null under the path and left both as they were
C23_Witness ==
    \E i, j \in DOMAIN steps :
        /\ i < j
        /\ Finished(i) /\ ResultOf(i).data = ("origin_ip" :> Str("1.2.3.4"))
        /\ Finished(j) /\ ResultOf(j).success /\ steps[j].extract # <<>>
        /\ ResultOf(j).response # None
        /\ ResultOf(j).response.json = OriginBody(None)
        /\ ResultOf(j).data = EmptyDict
        /\ context["origin_ip"] = Str("1.2.3.4")

-----------------------------------------------------------------------------
(* C24 *)

\* C24: when the request of a step succeeds on a body that is a mapping,
\* every rule with a str path that leads to a value that is not null has
\* that value under its key in the data of the result and in the context,
\* whatever the other rules of the step do and wherever they stand.
C24_FailuresIsolatedPerKey ==
    [][RequestSucceeds =>
          LET step == steps[idx]
              r == ResultsAt(results', step.name)
              body == r.response.json
          IN (body # JsonRaises /\ IsDict(body)) =>
                \A m \in DOMAIN step.extract :
                    LET key == step.extract[m][1]
                        path == step.extract[m][2]
                    IN (path.t = "chars" /\ RuleValue(body, path) # None)
                         => /\ key \in DOMAIN r.data
                            /\ r.data[key] = RuleValue(body, path)
                            /\ key \in DOMAIN context'
                            /\ context'[key] = RuleValue(body, path)]_vars

-----------------------------------------------------------------------------
(* C25 *)

\* step number i has succeeded on a request, with one rule whose path has no dot
PlainPathExtracted(i) ==
    /\ Finished(i) /\ ResultOf(i).success /\ ResultOf(i).response # None
    /\ Len(steps[i].extract) = 1
    /\ steps[i].extract[1][2].t = "chars"
    /\ ~HasDot(steps[i].extract[1][2].c)

\* C25: the value extracted for a path without a dot from a body that is a
\* mapping is the value of the key equal to the path or, when there is none,
\* of a key equal to it up to case; nothing is extracted exactly when there
\* is no such key or its value is null.
C25_PlainKeyCaseInsensitive ==
    \A i \in DOMAIN steps :
        PlainPathExtracted(i) =>
            LET key == steps[i].extract[1][1]
                path == steps[i].extract[1][2].c
                body == ResultOf(i).response.json
                data == ResultOf(i).data
                ends == IF body # JsonRaises /\ IsDict(body)
                        THEN Acceptable(body, <<path>>)
                        ELSE {None}
            IN /\ key \in DOMAIN data => data[key] \in ends \ {None}
               /\ key \notin DOMAIN data => None \in ends

-----------------------------------------------------------------------------
(* C26 *)

\* C26: no step of a run takes a key out of the context: the keys of the
\* context before a step are keys of the context after it, whether a step
\* succeeds, fails, is skipped or is passed over.
C26_ContextKeysGrow ==
    [][DOMAIN context \subseteq DOMAIN context']_vars

\* a step bound its response, the next was skipped, a third has ended, and
\* the response of the first is still in the context
C26_Witness ==
    \E i, j, k \in DOMAIN steps :
        /\ i < j /\ j < k
        /\ Finished(i) /\ SucceededOnRequest(steps[i].name)
        /\ Finished(j) /\ IsSkipped(ResultOf(j))
        /\ Finished(k)
        /\ ResponseKey(steps[i].name) \in DOMAIN context
        /\ ResponseKey(steps[k].name) \in DOMAIN context

-----------------------------------------------------------------------------
(* C27 *)

\* a result with success false is stored
StoresFailure ==
    /\ Len(results') = Len(results) + 1
    /\ ~results'[Len(results')].success

\* C27: the context is left as it is by a step on its way into the retry
\* loop, by every attempt that fails, and by the end of a step that fails,
\* be it at the dependency check, at the resolution of its fields or after
\* its last attempt: a step that ends with success false has written nothing
\* to the context.
C27_FailureLeavesContext ==
    [][((pc \in {"loop", "attempt"} /\ pc' = "attempt") \/ StoresFailure)
          => context' = context]_vars

\* a step has bound its response, and a later one has failed: at the
\* resolution of its headers, or after a request
C27_Witness ==
    \E i, j \in DOMAIN steps :
        /\ i < j
        /\ Finished(i) /\ SucceededOnRequest(steps[i].name)
        /\ Finished(j) /\ ~ResultOf(j).success
        /\ DOMAIN context = {ResponseKey(steps[i].name)}

-----------------------------------------------------------------------------
(* C28 *)

AllRequestEvents == {k \in DOMAIN log : log[k].ev = "request"}
\* the requests the steps entered among the first i may make in all
RECURSIVE AttemptsAllowed(_)
AttemptsAllowed(i) ==
    IF i = 0 THEN 0
    ELSE AttemptsAllowed(i - 1)
            + (IF Entered(i) THEN steps[i].max_retries + 1 ELSE 0)
\* no step is entered twice, no name is executed twice, and the requests
\* made are no more than the entered steps may make
BoundedWork ==
    /\ \A k1, k2 \in DOMAIN log :
          (k1 # k2 /\ log[k1].ev = "enter" /\ log[k2].ev = "enter")
          => /\ log[k1].step # log[k2].step
             /\ steps[log[k1].step].name # steps[log[k2].step].name
    /\ Cardinality(AllRequestEvents) <= AttemptsAllowed(Len(steps))
    /\ idx <= Len(steps) + 1
\* the for loop never goes back
LoopAdvances == pc # "idle" => idx' >= idx

\* C28: with max_retries >= 0 and a session whose calls return or raise,
\* execute() once called returns; on the way the for loop only goes
\* forward, no step is entered twice and no name executed twice, and the
\* requests made are at most the sum of max_retries + 1 over the steps that
\* were entered.
C28_ExecuteTerminates ==
    /\ []BoundedWork
    /\ [][LoopAdvances]_vars
    /\ (pc \in {"loop", "attempt"}) ~> (pc = "done")

\* execute() has returned after as many requests as its steps may make,
\* four or more
C28_Witness ==
    /\ pc = "done"
    /\ Cardinality(AllRequestEvents) = AttemptsAllowed(Len(steps))
    /\ Cardinality(AllRequestEvents) >= 4

-----------------------------------------------------------------------------
(* C29 *)

Unsupported(i) == steps[i].method \notin {"GET", "POST"}
\* a step with an unsupported method makes no request; while it is in its
\* retry loop it is in the iteration after as many pauses as it has had;
\* when it has ended it has paused max_retries times and has failed with
\* the error that names the method
RejectedAfterRetries ==
    \A i \in DOMAIN steps :
        (Entered(i) /\ Unsupported(i)) =>
            /\ RequestEvents(i) = {}
            /\ ~Finished(i) =>
                  /\ pc = "attempt" /\ idx = i
                  /\ attempt = Cardinality(Backoffs(i))
                  /\ attempt <= steps[i].max_retries
            /\ Finished(i) =>
                  /\ Cardinality(Backoffs(i)) = steps[i].max_retries
                  /\ ~ResultOf(i).success
                  /\ ResultOf(i).error = Err("ValueError", steps[i].method)
\* an iteration of the retry loop of a step with an unsupported method goes
\* on to the next iteration after a pause, unless it is iteration number
\* max_retries, which ends the step as failed
RetriesRejection ==
    (pc = "attempt" /\ Unsupported(idx)) =>
        IF attempt < steps[idx].max_retries
        THEN /\ pc' = "attempt" /\ attempt' = attempt + 1
             /\ results' = results
             /\ log' = Append(log, [ev |-> "backoff", step |-> idx])
        ELSE StoresFailure /\ log' = log

\* C29: a step with an unsupported method and max_retries = n goes through
\* n + 1 iterations of its retry loop, numbered 0 to n, with a pause after
\* each but the last, makes no request, and then has a result with success
\* false.
C29_RejectionIsRetried ==
    []RejectedAfterRetries /\ [][RetriesRejection]_vars

\* a step with an unsupported method and max_retries = 2 has failed after
\* two pauses
C29_Witness ==
    \E i \in DOMAIN steps :
        /\ Finished(i) /\ Unsupported(i)
        /\ steps[i].max_retries = 2
        /\ Cardinality(Backoffs(i)) = 2
        /\ ~ResultOf(i).success

-----------------------------------------------------------------------------
(* C30 *)

\* a request of step number i was answered in this call
AnsweredInCall(i) == \E k \in RequestEvents(i) : log[k].ok
\* every name of depends_on is the name of an earlier step that succeeded
\* on a request in this call
DependenciesSucceededInCall(i) ==
    \A m \in DOMAIN steps[i].depends_on :
        \E j \in 1..(i - 1) :
            steps[j].name = steps[i].depends_on[m] /\ AnsweredInCall(j)
\* a step whose dependencies succeeded in this call is not failed by its
\* dependency check, and the call returns the results of the steps it entered
OwnResults ==
    /\ \A i \in DOMAIN steps :
          (Entered(i) /\ DependenciesSucceededInCall(i) /\ Finished(i))
          => (ResultOf(i).error = None \/ ResultOf(i).error.kind # "Dependency")
    /\ pc = "done" => ResultNames = {steps[i].name : i \in EnteredUpTo(Len(steps))}
\* while the call is in its for loop no result it has stored goes away or
\* changes
ResultsKept ==
    pc \in {"loop", "attempt"} =>
        \A m \in DOMAIN results : m \in DOMAIN results' /\ results'[m] = results[m]

\* C30: while a call of execute() is under way, and whatever another call on
\* the same instance does, the results the call has stored stay as they
\* are, a step whose dependencies succeeded earlier in the call passes its
\* dependency check, and the call returns the results of exactly the steps
\* it entered.
C30_ResultsOwnedByCall ==
    []OwnResults /\ [][ResultsKept]_vars

====
